---- MODULE Spec2Model ----
(***************************************************************************)
(* gistit-ipc: the dual-socket bridge between gistit-cli and gistit-daemon *)
(* (src/gistit-ipc/src/lib.rs).  Two named Unix datagram sockets under one *)
(* base directory, a Server role that binds gistit-0 and targets gistit-1, *)
(* a Client role that binds gistit-1 and targets gistit-0, a busy-retrying *)
(* connect with a timeout, and bincode-encoded Instruction datagrams.      *)
(***************************************************************************)
EXTENDS Integers, Sequences, FiniteSets, TLC

(***************************************************************************)
(* Program constants.                                                      *)
(***************************************************************************)
READBUF_SIZE == 60000

CONNECT_TIMEOUT_SECS == 3

NAMED_SOCKET_0 == "gistit-0"

NAMED_SOCKET_1 == "gistit-1"

(***************************************************************************)
(* Bounds of the model.                                                    *)
(***************************************************************************)
\* bridges constructed: server() and client() calls that succeed
MaxBridges == 3

\* send calls followed
MaxSends == 3

\* datagrams a bound socket queues before a sender has to wait
MaxQueue == 3

\* clock ticks per second
TicksPerSec == 2

\* tasks spawned in the traffic under load (the test spawns eight)
MaxTasks == 2

(***************************************************************************)
(* Byte strings.  A byte string is a sequence of runs [b, n]: n copies of  *)
(* byte b, adjacent runs holding different bytes, so that equal byte       *)
(* strings are equal values and a 60,000-byte payload stays small.         *)
(***************************************************************************)
Run(b, n) == IF n = 0 THEN << >> ELSE << [b |-> b, n |-> n] >>

\* the one element of a singleton set.  { F(u) : u \in { e } } evaluates e
\* once, where F(e) would evaluate it at every mention of F's parameter.
The(S) == CHOOSE x \in S : TRUE

\* RSums(rs)[i]: the bytes in the first i runs
RSums(rs) ==
  The({ LET sums[i \in 0 .. Len(u)] == IF i = 0 THEN 0 ELSE sums[i - 1] + u[i].n
        IN  sums : u \in { rs } })

RLen(rs) == The({ RSums(u)[Len(u)] : u \in { rs } })

\* x followed by y
RCat(x, y) ==
  The({ IF u = << >> THEN v
        ELSE IF v = << >> THEN u
        ELSE IF u[Len(u)].b = v[1].b
             THEN SubSeq(u, 1, Len(u) - 1)
                    \o << [b |-> v[1].b, n |-> u[Len(u)].n + v[1].n] >>
                    \o Tail(v)
             ELSE u \o v : u \in { x }, v \in { y } })

\* the run holding byte i (1 <= i <= RLen(rs))
RunOf(rs, i) ==
  The({ The({ CHOOSE j \in 1 .. Len(u) : sums[j - 1] < k /\ k <= sums[j] :
              sums \in { RSums(u) } }) : u \in { rs }, k \in { i } })

ByteAt(rs, i) == The({ u[RunOf(u, i)].b : u \in { rs } })

\* the first k bytes (all of them when there are fewer)
RTake(rs, k) ==
  The({ IF n = 0 \/ u = << >> THEN << >>
        ELSE IF n >= RLen(u) THEN u
        ELSE The({ SubSeq(u, 1, j - 1)
                     \o << [b |-> u[j].b, n |-> n - RSums(u)[j - 1]] >> :
                   j \in { RunOf(u, n) } }) : u \in { rs }, n \in { k } })

\* what follows the first k bytes
RDrop(rs, k) ==
  The({ IF n = 0 \/ u = << >> THEN u
        ELSE IF n >= RLen(u) THEN << >>
        ELSE The({ << [b |-> u[j].b, n |-> RSums(u)[j] - n] >>
                     \o SubSeq(u, j + 1, Len(u)) :
                   j \in { RunOf(u, n + 1) } }) : u \in { rs }, n \in { k } })

(***************************************************************************)
(* bincode's default configuration (bincode::serialize / deserialize):     *)
(* little endian, fixed-width integers, a u32 variant index, a u64 length  *)
(* before a string or a sequence, one tag byte before an Option, and       *)
(* trailing bytes of the input ignored by deserialize.                     *)
(***************************************************************************)
U32(v) ==
  The({ RCat(RCat(Run(w % 256, 1), Run((w \div 256) % 256, 1)),
             RCat(Run((w \div 65536) % 256, 1), Run((w \div 16777216) % 256, 1))) :
        w \in { v } })

U64(v) == RCat(U32(v), Run(0, 4))

EncString(s) == The({ RCat(U64(RLen(u)), u) : u \in { s } })

\* The payload type: a hash and the bytes of the content.
EncGistit(g) == The({ RCat(EncString(h.hash), EncString(h.content)) : h \in { g } })

EncOption(o) == IF o.some THEN RCat(Run(1, 1), EncString(o.val)) ELSE Run(0, 1)

RECURSIVE EncVec(_)
EncVec(v) == IF v = << >> THEN << >> ELSE RCat(EncString(Head(v)), EncVec(Tail(v)))

EncServerResponse(r) ==
  CASE r.tag = "Provide" -> RCat(U32(0), EncOption(r.id))
    [] r.tag = "Fetch"   -> RCat(U32(1), EncGistit(r.data))
    [] r.tag = "Status"  ->
         RCat(U32(2),
         RCat(EncString(r.peer_id),
         RCat(U64(r.peer_count),
         RCat(U32(r.pending_connections),
         RCat(RCat(U64(Len(r.listeners)), EncVec(r.listeners)),
              U64(r.hosting))))))

Serialize(i) ==
  CASE i.tag = "Provide"  -> RCat(U32(0), RCat(EncString(i.hash), EncGistit(i.data)))
    [] i.tag = "Fetch"    -> RCat(U32(1), EncString(i.hash))
    [] i.tag = "Status"   -> U32(2)
    [] i.tag = "Shutdown" -> U32(3)
    [] i.tag = "Response" -> RCat(U32(4), EncServerResponse(i.resp))
    [] i.tag = "TestInstructionOne" -> U32(5)
    [] i.tag = "TestInstructionTwo" -> U32(6)

\* A reader's result: failure, or the value read and the bytes left.
Fail == [ok |-> FALSE]

Got(v, rest) == [ok |-> TRUE, val |-> v, rest |-> rest]

ReadU32(rs) ==
  The({ IF RLen(u) < 4 THEN Fail
        ELSE Got(ByteAt(u, 1) + 256 * ByteAt(u, 2) + 65536 * ByteAt(u, 3)
                   + 16777216 * ByteAt(u, 4),
                 RDrop(u, 4)) : u \in { rs } })

\* A u64 whose upper half is not zero is larger than anything encoded here: -1.
ReadU64(rs) ==
  The({ IF RLen(u) < 8 THEN Fail
        ELSE Got(IF ReadU32(RDrop(u, 4)).val = 0 THEN ReadU32(u).val ELSE -1,
                 RDrop(u, 8)) : u \in { rs } })

ReadString(rs) ==
  The({ IF ~n.ok THEN Fail
        ELSE IF n.val < 0 \/ n.val > RLen(n.rest) THEN Fail
        ELSE Got(RTake(n.rest, n.val), RDrop(n.rest, n.val)) : n \in { ReadU64(rs) } })

ReadGistit(rs) ==
  The({ IF ~h.ok THEN Fail
        ELSE The({ IF ~c.ok THEN Fail
                   ELSE Got([hash |-> h.val, content |-> c.val], c.rest) :
                   c \in { ReadString(h.rest) } }) : h \in { ReadString(rs) } })

ReadOption(rs) ==
  The({ IF RLen(u) < 1 THEN Fail
        ELSE IF ByteAt(u, 1) = 0 THEN Got([some |-> FALSE], RDrop(u, 1))
        ELSE IF ByteAt(u, 1) = 1
             THEN The({ IF ~s.ok THEN Fail
                        ELSE Got([some |-> TRUE, val |-> s.val], s.rest) :
                        s \in { ReadString(RDrop(u, 1)) } })
        ELSE Fail : u \in { rs } })

RECURSIVE ReadStrings(_, _)
ReadStrings(rs, k) ==
  IF k = 0 THEN Got(<< >>, rs)
  ELSE The({ IF ~s.ok THEN Fail
             ELSE The({ IF ~t.ok THEN Fail ELSE Got(<< s.val >> \o t.val, t.rest) :
                        t \in { ReadStrings(s.rest, k - 1) } }) :
             s \in { ReadString(rs) } })

ReadVec(rs) ==
  The({ IF ~n.ok THEN Fail
        ELSE IF n.val < 0 \/ n.val > RLen(n.rest) THEN Fail
        ELSE ReadStrings(n.rest, n.val) : n \in { ReadU64(rs) } })

ReadStatusTail(id, pc, pend) ==
  The({ IF ~ls.ok THEN Fail
        ELSE The({ IF ~h.ok THEN Fail
                   ELSE Got([tag |-> "Status", peer_id |-> id.val,
                             peer_count |-> pc.val,
                             pending_connections |-> pend.val,
                             listeners |-> ls.val, hosting |-> h.val],
                            h.rest) : h \in { ReadU64(ls.rest) } }) :
        ls \in { ReadVec(pend.rest) } })

ReadStatus(rs) ==
  The({ IF ~id.ok THEN Fail
        ELSE The({ IF ~pc.ok THEN Fail
                   ELSE The({ IF ~pend.ok THEN Fail
                              ELSE ReadStatusTail(id, pc, pend) :
                              pend \in { ReadU32(pc.rest) } }) :
                   pc \in { ReadU64(id.rest) } }) :
        id \in { ReadString(rs) } })

ReadServerResponse(rs) ==
  The({ IF ~t.ok THEN Fail
        ELSE CASE t.val = 0 ->
                    The({ IF ~o.ok THEN Fail
                          ELSE Got([tag |-> "Provide", id |-> o.val], o.rest) :
                          o \in { ReadOption(t.rest) } })
               [] t.val = 1 ->
                    The({ IF ~g.ok THEN Fail
                          ELSE Got([tag |-> "Fetch", data |-> g.val], g.rest) :
                          g \in { ReadGistit(t.rest) } })
               [] t.val = 2 -> ReadStatus(t.rest)
               [] OTHER -> Fail : t \in { ReadU32(rs) } })

\* deserialize: Ok(value) or a decode error; what follows the value is ignored.
Ok(v) == [ok |-> TRUE, val |-> v]

DecodeErr == [ok |-> FALSE, err |-> "decode"]

DeserializeProvide(rs) ==
  The({ IF ~h.ok THEN DecodeErr
        ELSE The({ IF ~g.ok THEN DecodeErr
                   ELSE Ok([tag |-> "Provide", hash |-> h.val, data |-> g.val]) :
                   g \in { ReadGistit(h.rest) } }) : h \in { ReadString(rs) } })

Deserialize(buf) ==
  The({ IF ~t.ok THEN DecodeErr
        ELSE CASE t.val = 0 -> DeserializeProvide(t.rest)
               [] t.val = 1 ->
                    The({ IF ~h.ok THEN DecodeErr
                          ELSE Ok([tag |-> "Fetch", hash |-> h.val]) :
                          h \in { ReadString(t.rest) } })
               [] t.val = 2 -> Ok([tag |-> "Status"])
               [] t.val = 3 -> Ok([tag |-> "Shutdown"])
               [] t.val = 4 ->
                    The({ IF ~r.ok THEN DecodeErr
                          ELSE Ok([tag |-> "Response", resp |-> r.val]) :
                          r \in { ReadServerResponse(t.rest) } })
               [] t.val = 5 -> Ok([tag |-> "TestInstructionOne"])
               [] t.val = 6 -> Ok([tag |-> "TestInstructionTwo"])
               [] OTHER -> DecodeErr : t \in { ReadU32(buf) } })

\* a receive buffer of twice READBUF_SIZE
RecvBufferDouble(dgram) ==
  The({ RCat(kept, Run(0, 2 * READBUF_SIZE - RLen(kept))) :
        kept \in { RTake(dgram, 2 * READBUF_SIZE) } })

\* a receive buffer one byte shorter than READBUF_SIZE
RecvBufferShort(dgram) ==
  The({ RCat(kept, Run(0, READBUF_SIZE - 1 - RLen(kept))) :
        kept \in { RTake(dgram, READBUF_SIZE - 1) } })

\* recv's buffer: vec![0u8; READBUF_SIZE] with the datagram copied over its
\* start, cut at the buffer's end.
RecvBuffer(dgram) ==
  The({ RCat(kept, Run(0, READBUF_SIZE - RLen(kept))) :
        kept \in { RTake(dgram, READBUF_SIZE) } })

(***************************************************************************)
(* The instructions exchanged: one of every variant and of every reply, a  *)
(* Provide whose encoding fills the receive buffer exactly and one whose   *)
(* encoding is one byte longer.                                            *)
(***************************************************************************)
Content(n) == [hash |-> Run(104, 2), content |-> Run(120, n)]

FetchA == [tag |-> "Fetch", hash |-> Run(97, 1)]

ResponseFetch == [tag |-> "Response", resp |-> [tag |-> "Fetch", data |-> Content(5)]]

\* 4 + (8 + 2) + (8 + 2) + (8 + n) bytes
ProvideOfSize(size) == [tag |-> "Provide", hash |-> Run(104, 2), data |-> Content(size - 32)]

ResponseProvide(id) == [tag |-> "Response", resp |-> [tag |-> "Provide", id |-> id]]

ResponseStatus ==
  [tag |-> "Response",
   resp |-> [tag |-> "Status", peer_id |-> Run(112, 3), peer_count |-> 2,
             pending_connections |-> 1,
             listeners |-> << Run(108, 4), Run(109, 1) >>, hosting |-> 7]]

Msgs ==
  { FetchA, [tag |-> "Status"], [tag |-> "Shutdown"], ResponseFetch,
    ResponseProvide([some |-> TRUE, val |-> Run(104, 2)]),
    ResponseProvide([some |-> FALSE]), ResponseStatus,
    ProvideOfSize(READBUF_SIZE), ProvideOfSize(READBUF_SIZE + 1) }

\* the fetch conversation: the client asks, the server answers
FetchMsg(r) == IF r = "Client" THEN FetchA ELSE ResponseFetch

\* What recv makes of every datagram that encodes an instruction of Msgs,
\* worked out once.
DecodedMsgs == { << d, Deserialize(RecvBuffer(d)) >> : d \in { Serialize(m) : m \in Msgs } }

\* recv's buffer filled from the datagram and deserialized: looked up when
\* the datagram is one of those, worked out otherwise
RecvDecode(dgram) ==
  IF \E p \in DecodedMsgs : p[1] = dgram
  THEN (CHOOSE p \in DecodedMsgs : p[1] = dgram)[2]
  ELSE Deserialize(RecvBuffer(dgram))

Bridges == 1 .. MaxBridges

Roles == { "Server", "Client" }

SockNames == { NAMED_SOCKET_0, NAMED_SOCKET_1 }

VARIABLES
  role,     \* Bridge<T>: the role of each bridge constructed so far, or "none"
  live,     \* the bridge has not been dropped
  inq,      \* the datagrams queued at the bridge's bound socket
  peer,     \* the bound socket the bridge's other socket is connected to, or 0
  fs,       \* the socket file at each name under base: the socket bound there, or 0
  bindRes,  \* the last server() / client() call: what was at the path, the result
  cpc,      \* the bridge's connect_blocking call: not called yet ("new"), in
            \* its loop ("attempt", "check"), or returned ("ok", "err")
  elapsed,  \* ticks since `earlier` of the call in progress
  lag,      \* ticks between the call's last failed attempt and its clock read
  early,    \* the call began before the peer path was bound and has seen it
            \* bound, without a break, since before the timeout elapsed
  assoc,    \* the operations that have connected the bridge's other socket
  sent,     \* the send calls, in order: bridge, instruction, destination, result
  rcvd      \* per bridge, the recv calls that returned, in order

\* The command line client's fetch, in a process of its own.
VARIABLES
  GISTIT_SECRET_RETRY_COUNT,  \* the process-wide AtomicU8
  depth,     \* the activations of dispatch in progress, one inside the other
  at,        \* where the innermost one is: awaiting the response, or the prompt
  count,     \* its local `count`, the value fetch_add returned
  secret,    \* self.secret of the innermost activation
  prompted,  \* the prompts shown: the count at the prompt, the secret entered
  outcome    \* what the outermost dispatch returned

cliVars == << GISTIT_SECRET_RETRY_COUNT, depth, at, count, secret, prompted, outcome >>

\* the process has started: the counter is AtomicU8::new(0), no dispatch yet
CliInit ==
  /\ GISTIT_SECRET_RETRY_COUNT = 0
  /\ depth = 0
  /\ at = "idle"
  /\ count = 0
  /\ secret = "none"
  /\ prompted = << >>
  /\ outcome = "none"

vars ==
  << role, live, inq, peer, fs, bindRes, cpc, elapsed, lag, early, assoc, sent, rcvd,
     GISTIT_SECRET_RETRY_COUNT, depth, at, count, secret, prompted, outcome >>

bridgeVars ==
  << role, live, inq, peer, fs, bindRes, cpc, elapsed, lag, early, assoc, sent, rcvd >>

sockVars == << role, live, inq, peer, fs, bindRes >>

connVars == << cpc, elapsed, lag >>

Init ==
  /\ role = [b \in Bridges |-> "none"]
  /\ live = [b \in Bridges |-> FALSE]
  /\ inq = [b \in Bridges |-> << >>]
  /\ peer = [b \in Bridges |-> 0]
  /\ fs = [n \in SockNames |-> 0]
  /\ bindRes = [over |-> "none", ok |-> FALSE]
  /\ cpc = [b \in Bridges |-> "new"]
  /\ elapsed = [b \in Bridges |-> 0]
  /\ lag = [b \in Bridges |-> 0]
  /\ early = [b \in Bridges |-> FALSE]
  /\ assoc = [b \in Bridges |-> { }]
  /\ sent = << >>
  /\ rcvd = [b \in Bridges |-> << >>]
  /\ CliInit

(***************************************************************************)
(* The two names, and connecting to one.                                   *)
(***************************************************************************)
\* both roles binding the first name
BindNameSame(r) == NAMED_SOCKET_0

\* the name a role binds
BindName(r) == IF r = "Server" THEN NAMED_SOCKET_0 ELSE NAMED_SOCKET_1

\* both sockets of a role on the name the role binds
PeerNameOwn(r) == IF r = "Server" THEN NAMED_SOCKET_0 ELSE NAMED_SOCKET_1

\* the name a role's other socket connects to
PeerName(r) == IF r = "Server" THEN NAMED_SOCKET_1 ELSE NAMED_SOCKET_0

\* a bridge whose connect_blocking has failed takes no further call
IdleNoErr(b) == cpc[b] \in { "new", "ok" }

\* no connect_blocking call is in progress on the bridge
Idle(b) == cpc[b] \in { "new", "ok", "err" }

(***************************************************************************)
(* dgram.connect(base.join(sock_name)): the socket now bound to the file,  *)
(* if there is a file and its socket is open.  A failed connect leaves an  *)
(* earlier association as it was.                                          *)
(***************************************************************************)
Connect(b, name) ==
  IF fs[name] # 0 /\ live[fs[name]]
  THEN [ok |-> TRUE, peer |-> fs[name]]
  ELSE [ok |-> FALSE, peer |-> peer[b]]

\* __alive: the value alive() returns
AliveValue(b) == Connect(b, PeerName(role[b])).ok

\* ticks in CONNECT_TIMEOUT_SECS
TimeoutTicks == CONNECT_TIMEOUT_SECS * TicksPerSec

\* The record, kept with every step, of the calls that began before the peer
\* path was bound and have seen it bound, without a break, since before
\* CONNECT_TIMEOUT_SECS had elapsed; it stays with a call that returned Ok.
Watch ==
  early' = [b \in Bridges |->
              IF cpc'[b] \in { "attempt", "check" }
              THEN /\ ~Idle(b)
                   /\ fs'[PeerName(role'[b])] # 0
                   /\ live'[fs'[PeerName(role'[b])]]
                   /\ IF AliveValue(b) THEN early[b] ELSE elapsed'[b] < TimeoutTicks
              ELSE cpc'[b] = "ok" /\ early[b]]

(***************************************************************************)
(* server(), client(), and the end of a bridge.                            *)
(***************************************************************************)
\* a bind that leaves the file at the path
RemoveStaleNone(f, name) == f

\* if metadata(path).is_ok() { remove_file(path)? }
RemoveStale(f, name) == IF f[name] # 0 THEN [f EXCEPT ![name] = 0] ELSE f

\* UnixDatagram::bind: fails (address in use) when a file is at the path
Bind(f, name, b) ==
  IF f[name] # 0 THEN [ok |-> FALSE, fs |-> f]
  ELSE [ok |-> TRUE, fs |-> [f EXCEPT ![name] = b]]

NextBridge == Cardinality({ b \in Bridges : role[b] # "none" }) + 1

\* what is at the path a role binds: nothing, the file of a dropped bridge,
\* or the file of a bridge that is alive
AtPath(r) ==
  IF fs[BindName(r)] = 0 THEN "free"
  ELSE IF live[fs[BindName(r)]] THEN "live" ELSE "stale"

New(r) ==
  /\ NextBridge <= MaxBridges
  /\ LET b == NextBridge
         res == Bind(RemoveStale(fs, BindName(r)), BindName(r), b)
     IN  /\ fs' = res.fs
         /\ bindRes' = [over |-> AtPath(r), ok |-> res.ok]
         /\ IF res.ok
            THEN /\ role' = [role EXCEPT ![b] = r]
                 /\ live' = [live EXCEPT ![b] = TRUE]
            ELSE UNCHANGED << role, live >>
  /\ UNCHANGED << inq, peer, connVars, assoc, sent, rcvd >>
  /\ Watch
  /\ UNCHANGED cliVars

\* server() or client() on a base directory that does not exist: metadata
\* fails, nothing is removed, bind fails and `?` returns its error; there is
\* no bridge.
NewNoDir(r) ==
  /\ bindRes' = [over |-> "nodir", ok |-> FALSE]
  /\ UNCHANGED << role, live, inq, peer, fs, connVars, assoc, sent, rcvd >>
  /\ Watch
  /\ UNCHANGED cliVars

\* a drop that removes the socket file of the bridge
DropUnlink(b) ==
  /\ live[b]
  /\ Idle(b)
  /\ live' = [live EXCEPT ![b] = FALSE]
  /\ inq' = [inq EXCEPT ![b] = << >>]
  /\ peer' = [peer EXCEPT ![b] = 0]
  /\ fs' = [n \in SockNames |-> IF fs[n] = b THEN 0 ELSE fs[n]]
  /\ UNCHANGED << role, bindRes, connVars, assoc, sent, rcvd >>
  /\ Watch
  /\ UNCHANGED cliVars

\* The bridge goes out of scope: both sockets close, the socket file stays.
Drop(b) ==
  /\ live[b]
  /\ Idle(b)
  /\ live' = [live EXCEPT ![b] = FALSE]
  /\ inq' = [inq EXCEPT ![b] = << >>]
  /\ peer' = [peer EXCEPT ![b] = 0]
  /\ UNCHANGED << role, fs, bindRes, connVars, assoc, sent, rcvd >>
  /\ Watch
  /\ UNCHANGED cliVars

\* a probe that leaves the other socket as it was
AlivePure(b) ==
  /\ live[b]
  /\ Idle(b)
  /\ AliveValue(b) \in BOOLEAN
  /\ UNCHANGED << role, live, inq, peer, fs, bindRes, connVars, assoc, sent, rcvd >>
  /\ Watch
  /\ UNCHANGED cliVars

Alive(b) ==
  /\ live[b]
  /\ Idle(b)
  /\ peer' = [peer EXCEPT ![b] = Connect(b, PeerName(role[b])).peer]
  /\ assoc' = [assoc EXCEPT ![b] = IF AliveValue(b) THEN @ \cup { "alive" } ELSE @]
  /\ UNCHANGED << role, live, inq, fs, bindRes, connVars, sent, rcvd >>
  /\ Watch
  /\ UNCHANGED cliVars

(***************************************************************************)
(* __connect_blocking: `earlier` is read, then connect is attempted until  *)
(* it succeeds; after each failed attempt the clock is read and the call   *)
(* returns the attempt's error if the whole seconds elapsed exceed         *)
(* CONNECT_TIMEOUT_SECS.  The call holds &mut self: nothing else runs on   *)
(* the bridge meanwhile.                                                   *)
(***************************************************************************)
\* a timeout that is reached at CONNECT_TIMEOUT_SECS whole seconds
TimedOutAt(ticks) == (ticks \div TicksPerSec) >= CONNECT_TIMEOUT_SECS

\* Instant::now().duration_since(earlier).as_secs() > CONNECT_TIMEOUT_SECS
TimedOut(ticks) == (ticks \div TicksPerSec) > CONNECT_TIMEOUT_SECS

MaxElapsed == (CONNECT_TIMEOUT_SECS + 1) * TicksPerSec + 1

ConnectStart(b) ==
  /\ live[b]
  /\ Idle(b)
  /\ cpc' = [cpc EXCEPT ![b] = "attempt"]
  /\ elapsed' = [elapsed EXCEPT ![b] = 0]
  /\ lag' = [lag EXCEPT ![b] = 0]
  /\ UNCHANGED << sockVars, assoc, sent, rcvd >>
  /\ Watch
  /\ UNCHANGED cliVars

ConnectAttempt(b) ==
  /\ cpc[b] = "attempt"
  /\ LET c == Connect(b, PeerName(role[b]))
     IN  /\ peer' = [peer EXCEPT ![b] = c.peer]
         /\ cpc' = [cpc EXCEPT ![b] = IF c.ok THEN "ok" ELSE "check"]
         /\ elapsed' = [elapsed EXCEPT ![b] = IF c.ok THEN 0 ELSE @]
         /\ assoc' = [assoc EXCEPT ![b] =
                        IF c.ok THEN @ \cup { "connect_blocking" } ELSE @]
  /\ lag' = [lag EXCEPT ![b] = 0]
  /\ UNCHANGED << role, live, inq, fs, bindRes, sent, rcvd >>
  /\ Watch
  /\ UNCHANGED cliVars

ConnectCheck(b) ==
  /\ cpc[b] = "check"
  /\ IF TimedOut(elapsed[b])
     THEN /\ cpc' = [cpc EXCEPT ![b] = "err"]
          /\ elapsed' = [elapsed EXCEPT ![b] = 0]
     ELSE /\ cpc' = [cpc EXCEPT ![b] = "attempt"]
          /\ UNCHANGED elapsed
  /\ lag' = [lag EXCEPT ![b] = 0]
  /\ UNCHANGED << sockVars, assoc, sent, rcvd >>
  /\ Watch
  /\ UNCHANGED cliVars

\* A call whose first attempt succeeds.
ConnectBlocking(b) ==
  /\ live[b]
  /\ Idle(b)
  /\ Connect(b, PeerName(role[b])).ok
  /\ peer' = [peer EXCEPT ![b] = Connect(b, PeerName(role[b])).peer]
  /\ cpc' = [cpc EXCEPT ![b] = "ok"]
  /\ assoc' = [assoc EXCEPT ![b] = @ \cup { "connect_blocking" }]
  /\ UNCHANGED << role, live, inq, fs, bindRes, elapsed, lag, sent, rcvd >>
  /\ Watch
  /\ UNCHANGED cliVars

\* Time passes for the calls in progress.  The loop does nothing between a
\* failed attempt and its clock read: at most one tick falls between them.
Tick ==
  /\ \E b \in Bridges : ~Idle(b)
  /\ \A b \in Bridges :
       ~Idle(b) => /\ elapsed[b] < MaxElapsed
                   /\ cpc[b] = "check" => lag[b] = 0
  /\ elapsed' = [b \in Bridges |-> IF Idle(b) THEN elapsed[b] ELSE elapsed[b] + 1]
  /\ lag' = [b \in Bridges |-> IF cpc[b] = "check" THEN 1 ELSE lag[b]]
  /\ UNCHANGED << sockVars, cpc, assoc, sent, rcvd >>
  /\ Watch
  /\ UNCHANGED cliVars

(***************************************************************************)
(* send and recv.                                                          *)
(***************************************************************************)
\* a send to the peer path (send_to) where the socket is not connected
SockSendTo(b, dgram) ==
  IF peer[b] = 0 /\ Connect(b, PeerName(role[b])).ok
  THEN [ok |-> TRUE, peer |-> 0,
        inq |-> [inq EXCEPT ![Connect(b, PeerName(role[b])).peer] = Append(@, dgram)]]
  ELSE IF peer[b] = 0 THEN [ok |-> FALSE, peer |-> 0, inq |-> inq]
  ELSE IF ~live[peer[b]] THEN [ok |-> FALSE, peer |-> 0, inq |-> inq]
  ELSE [ok |-> TRUE, peer |-> peer[b],
        inq |-> [inq EXCEPT ![peer[b]] = Append(@, dgram)]]

\* a send that reports success and loses the datagram
SockSendLossy(b, dgram) ==
  IF peer[b] = 0 THEN [ok |-> FALSE, peer |-> 0, inq |-> inq]
  ELSE IF ~live[peer[b]] THEN [ok |-> FALSE, peer |-> 0, inq |-> inq]
  ELSE [ok |-> TRUE, peer |-> peer[b], inq |-> inq]

\* a send that needs the receiving bridge to be connected back
SockSendMutual(b, dgram) ==
  IF peer[b] = 0 THEN [ok |-> FALSE, peer |-> 0, inq |-> inq]
  ELSE IF ~live[peer[b]] THEN [ok |-> FALSE, peer |-> 0, inq |-> inq]
  ELSE IF peer[peer[b]] = 0 THEN [ok |-> FALSE, peer |-> peer[b], inq |-> inq]
  ELSE [ok |-> TRUE, peer |-> peer[b],
        inq |-> [inq EXCEPT ![peer[b]] = Append(@, dgram)]]

\* one channel for both directions: a send discards what the sender has queued
SockSendHalfDuplex(b, dgram) ==
  IF peer[b] = 0 THEN [ok |-> FALSE, peer |-> 0, inq |-> inq]
  ELSE IF ~live[peer[b]] THEN [ok |-> FALSE, peer |-> 0, inq |-> inq]
  ELSE [ok |-> TRUE, peer |-> peer[b],
        inq |-> [inq EXCEPT ![peer[b]] = Append(@, dgram), ![b] = << >>]]

\* a send that puts its datagram in front of those queued
SockSendFront(b, dgram) ==
  IF peer[b] = 0 THEN [ok |-> FALSE, peer |-> 0, inq |-> inq]
  ELSE IF ~live[peer[b]] THEN [ok |-> FALSE, peer |-> 0, inq |-> inq]
  ELSE [ok |-> TRUE, peer |-> peer[b],
        inq |-> [inq EXCEPT ![peer[b]] = << dgram >> \o @]]

\* a byte stream: the bytes join the last datagram queued, when there is one
SockSendStream(b, dgram) ==
  IF peer[b] = 0 THEN [ok |-> FALSE, peer |-> 0, inq |-> inq]
  ELSE IF ~live[peer[b]] THEN [ok |-> FALSE, peer |-> 0, inq |-> inq]
  ELSE IF inq[peer[b]] = << >>
  THEN [ok |-> TRUE, peer |-> peer[b],
        inq |-> [inq EXCEPT ![peer[b]] = Append(@, dgram)]]
  ELSE [ok |-> TRUE, peer |-> peer[b],
        inq |-> [inq EXCEPT ![peer[b]][Len(inq[peer[b]])].bytes = RCat(@, dgram.bytes)]]

\* a send that looks the peer path up again when its peer has closed
SockSendFollowPath(b, dgram) ==
  IF peer[b] = 0 THEN [ok |-> FALSE, peer |-> 0, inq |-> inq]
  ELSE IF ~live[peer[b]]
  THEN IF Connect(b, PeerName(role[b])).ok
       THEN [ok |-> TRUE, peer |-> Connect(b, PeerName(role[b])).peer,
             inq |-> [inq EXCEPT ![Connect(b, PeerName(role[b])).peer] = Append(@, dgram)]]
       ELSE [ok |-> FALSE, peer |-> 0, inq |-> inq]
  ELSE [ok |-> TRUE, peer |-> peer[b],
        inq |-> [inq EXCEPT ![peer[b]] = Append(@, dgram)]]

\* sock.send(&encoded) on the bridge's other socket: not connected, peer
\* closed (the association is dropped), or the datagram joins the peer's queue.
SockSend(b, dgram) ==
  IF peer[b] = 0 THEN [ok |-> FALSE, peer |-> 0, inq |-> inq]
  ELSE IF ~live[peer[b]] THEN [ok |-> FALSE, peer |-> 0, inq |-> inq]
  ELSE [ok |-> TRUE, peer |-> peer[b],
        inq |-> [inq EXCEPT ![peer[b]] = Append(@, dgram)]]

\* the send waits while the peer's queue is full
SendReady(b) == (peer[b] # 0 /\ live[peer[b]]) => Len(inq[peer[b]]) < MaxQueue

\* send(&self, instruction), called by task t of the process
SendAs(t, b, m) ==
  /\ live[b]
  /\ Idle(b)
  /\ SendReady(b)
  /\ LET s == SockSend(b, [uid |-> Len(sent) + 1, bytes |-> Serialize(m)])
     IN  /\ inq' = s.inq
         /\ peer' = [peer EXCEPT ![b] = s.peer]
         /\ sent' = Append(sent, [by |-> b, msg |-> m, via |-> assoc[b],
                                  to |-> IF s.ok THEN peer[b] ELSE 0, ok |-> s.ok,
                                  task |-> t])
  /\ UNCHANGED << role, live, fs, bindRes, connVars, assoc, rcvd >>
  /\ Watch
  /\ UNCHANGED cliVars

\* a send by the task that owns the bridges
Send(b, m) == SendAs(0, b, m)

\* a receive that takes the newest datagram queued
SockRecvLast(q) == [dgram |-> q[Len(q)], rest |-> SubSeq(q, 1, Len(q) - 1)]

\* a receive that leaves the datagram on the queue
SockRecvPeek(q) == [dgram |-> Head(q), rest |-> q]

\* a byte stream: what of the datagram exceeds the buffer stays queued
SockRecvStream(q) ==
  [dgram |-> Head(q),
   rest |-> IF RLen(Head(q).bytes) > READBUF_SIZE
            THEN << [uid |-> Head(q).uid, bytes |-> RDrop(Head(q).bytes, READBUF_SIZE)] >>
                   \o Tail(q)
            ELSE Tail(q)]

\* sock.recv(&mut buf): the oldest datagram queued, taken off the queue
SockRecv(q) == [dgram |-> Head(q), rest |-> Tail(q)]

\* a recv that gives up with an error when no datagram is queued
RecvOrGiveUp(b) ==
  /\ live[b]
  /\ Idle(b)
  /\ IF inq[b] = << >>
     THEN /\ rcvd' = [rcvd EXCEPT ![b] = Append(@, [uid |-> 0, res |-> DecodeErr])]
          /\ UNCHANGED inq
     ELSE LET r == SockRecv(inq[b])
          IN  /\ inq' = [inq EXCEPT ![b] = r.rest]
              /\ rcvd' = [rcvd EXCEPT ![b] =
                            Append(@, [uid |-> r.dgram.uid,
                                       res |-> RecvDecode(r.dgram.bytes)])]
  /\ UNCHANGED << role, live, peer, fs, bindRes, connVars, assoc, sent >>
  /\ Watch
  /\ UNCHANGED cliVars

Recv(b) ==
  /\ live[b]
  /\ Idle(b)
  /\ inq[b] # << >>
  /\ LET r == SockRecv(inq[b])
     IN  /\ inq' = [inq EXCEPT ![b] = r.rest]
         /\ rcvd' = [rcvd EXCEPT ![b] =
                       Append(@, [uid |-> r.dgram.uid,
                                  res |-> RecvDecode(r.dgram.bytes)])]
  /\ UNCHANGED << role, live, peer, fs, bindRes, connVars, assoc, sent >>
  /\ Watch
  /\ UNCHANGED cliVars

(***************************************************************************)
(* Spec: the life of the bridges under one base directory, with the fetch  *)
(* conversation as traffic and connect_blocking called once the peer path  *)
(* is bound.                                                               *)
(***************************************************************************)
Next ==
  \/ \E r \in Roles : New(r)
  \/ \E b \in Bridges : Drop(b)
  \/ \E b \in Bridges : Alive(b)
  \/ \E b \in Bridges : ConnectBlocking(b)
  \/ \E b \in Bridges : Len(sent) < MaxSends - 1 /\ Send(b, FetchMsg(role[b]))
  \/ \E b \in Bridges : Recv(b)

Spec == Init /\ [][Next]_vars

(***************************************************************************)
(* SpecConnect: construction and connect_blocking against the clock.       *)
(***************************************************************************)
NextConnect ==
  \/ \E r \in Roles : New(r)
  \/ \E b \in Bridges : Drop(b)
  \/ \E b \in Bridges : ConnectStart(b)
  \/ \E b \in Bridges : ConnectAttempt(b)
  \/ \E b \in Bridges : ConnectCheck(b)
  \/ Tick

SpecConnect == Init /\ [][NextConnect]_vars

\* The loop of connect_blocking keeps running, and the clock with it.
FairConnect ==
  /\ SpecConnect
  /\ \A b \in Bridges : WF_vars(ConnectAttempt(b)) /\ WF_vars(ConnectCheck(b))

(***************************************************************************)
(* FairStartup: two processes, a daemon and a client, started in either   *)
(* order and started again after they ended: each constructs its bridge   *)
(* when it holds none.  The loops and the clock run as in FairConnect.     *)
(***************************************************************************)
NextStartup ==
  \/ \E r \in Roles : (\A b \in Bridges : role[b] = r => ~live[b]) /\ New(r)
  \/ \E b \in Bridges : Drop(b)
  \/ \E b \in Bridges : ConnectStart(b)
  \/ \E b \in Bridges : ConnectAttempt(b)
  \/ \E b \in Bridges : ConnectCheck(b)
  \/ Tick

FairStartup ==
  /\ Init /\ [][NextStartup]_vars
  /\ \A b \in Bridges : WF_vars(ConnectAttempt(b)) /\ WF_vars(ConnectCheck(b))

(***************************************************************************)
(* SpecTraffic: a Server and a Client bridge on one base directory, both   *)
(* connected (server(), client(), connect_blocking on each), exchanging    *)
(* instructions of every kind.                                             *)
(***************************************************************************)
InitPair ==
  /\ role = [b \in Bridges |-> IF b = 1 THEN "Server" ELSE IF b = 2 THEN "Client" ELSE "none"]
  /\ live = [b \in Bridges |-> b \in { 1, 2 }]
  /\ inq = [b \in Bridges |-> << >>]
  /\ peer = [b \in Bridges |-> IF b = 1 THEN 2 ELSE IF b = 2 THEN 1 ELSE 0]
  /\ fs = [n \in SockNames |-> IF n = NAMED_SOCKET_0 THEN 1 ELSE 2]
  /\ bindRes = [over |-> "free", ok |-> TRUE]
  /\ cpc = [b \in Bridges |-> IF b \in { 1, 2 } THEN "ok" ELSE "new"]
  /\ elapsed = [b \in Bridges |-> 0]
  /\ lag = [b \in Bridges |-> 0]
  /\ early = [b \in Bridges |-> FALSE]
  /\ assoc = [b \in Bridges |-> IF b \in { 1, 2 } THEN { "connect_blocking" } ELSE { }]
  /\ sent = << >>
  /\ rcvd = [b \in Bridges |-> << >>]
  /\ CliInit

NextTraffic ==
  \/ \E b \in Bridges, m \in Msgs : Len(sent) < MaxSends /\ Send(b, m)
  \/ \E b \in Bridges : Recv(b)
  \/ \E b \in Bridges : Drop(b)

SpecTraffic == InitPair /\ [][NextTraffic]_vars

(***************************************************************************)
(* FairDelivery: the same pair exchanging a small instruction, the Provide *)
(* that fills the receive buffer and the Provide one byte longer, with     *)
(* both sides calling recv again and again: a recv that can return does.   *)
(***************************************************************************)
DeliveryMsgs == { FetchA, ProvideOfSize(READBUF_SIZE), ProvideOfSize(READBUF_SIZE + 1) }

NextDelivery ==
  \/ \E b \in Bridges, m \in DeliveryMsgs : Len(sent) < MaxSends /\ Send(b, m)
  \/ \E b \in Bridges : Recv(b)
  \/ \E b \in Bridges : Drop(b)

FairDelivery ==
  InitPair /\ [][NextDelivery]_vars /\ \A b \in Bridges : WF_vars(Recv(b))

(***************************************************************************)
(* SpecOversize: the same pair exchanging instructions whose encodings are *)
(* longer than the receive buffer, by one byte and by far, in a Provide, a *)
(* Fetch and a Response, beside a Fetch and a Provide that fit.            *)
(***************************************************************************)
\* 4 + (8 + n) bytes
FetchOfSize(size) == [tag |-> "Fetch", hash |-> Run(97, size - 12)]

\* 4 + 4 + (8 + 2) + (8 + n) bytes
ResponseOfSize(size) ==
  [tag |-> "Response", resp |-> [tag |-> "Fetch", data |-> Content(size - 26)]]

OversizeMsgs ==
  { FetchA, ProvideOfSize(READBUF_SIZE), ProvideOfSize(READBUF_SIZE + 1),
    ProvideOfSize(2 * READBUF_SIZE), FetchOfSize(READBUF_SIZE + 1),
    ResponseOfSize(READBUF_SIZE + 8) }

NextOversize ==
  \/ \E b \in Bridges, m \in OversizeMsgs : Len(sent) < MaxSends /\ Send(b, m)
  \/ \E b \in Bridges : Recv(b)

SpecOversize == InitPair /\ [][NextOversize]_vars

(***************************************************************************)
(* SpecLoad: the traffic under load.  The pair is connected and shared by  *)
(* the tasks the owner spawns, one before each round of four recv calls    *)
(* (client, server, client, server).  A task loops over client.send(One),  *)
(* client.send(Two), server.send(One), server.send(Two); the runtime may   *)
(* run the tasks in any order and switch between them at any send.         *)
(***************************************************************************)
Tasks == 1 .. MaxTasks

MaxLoadSends == 4 * MaxTasks + MaxSends

TestInstructionOne == [tag |-> "TestInstructionOne"]

TestInstructionTwo == [tag |-> "TestInstructionTwo"]

\* the sends the task has completed
SendsOf(t) == Cardinality({ u \in 1 .. Len(sent) : sent[u].task = t })

\* the recv calls the owner has completed
RecvsDone == Len(rcvd[1]) + Len(rcvd[2])

\* the task's place in its loop: the bridge and the instruction of its next send
LoadBridge(t) == IF (SendsOf(t) % 4) \in { 0, 1 } THEN 2 ELSE 1

LoadInstruction(t) ==
  IF (SendsOf(t) % 2) = 0 THEN TestInstructionOne ELSE TestInstructionTwo

\* task t was spawned in round t of the owner's loop
LoadSend(t) ==
  /\ RecvsDone >= 4 * (t - 1)
  /\ Len(sent) < MaxLoadSends
  /\ SendAs(t, LoadBridge(t), LoadInstruction(t))

\* the owner's next recv: the client's, then the server's
LoadRecv == Recv(IF (RecvsDone % 2) = 0 THEN 2 ELSE 1)

NextLoad ==
  \/ \E t \in Tasks : LoadSend(t)
  \/ LoadRecv

SpecLoad == InitPair /\ [][NextLoad]_vars

(***************************************************************************)
(* SpecErrors: a Server and a Client bridge on one base directory, bound   *)
(* and not yet connected, with every way an operation fails: a constructor *)
(* on a missing directory, connect_blocking against the clock with the     *)
(* peer gone, send while unconnected or to a closed peer, and recv of a    *)
(* datagram that does not decode.                                          *)
(***************************************************************************)
InitBound ==
  /\ role = [b \in Bridges |-> IF b = 1 THEN "Server" ELSE IF b = 2 THEN "Client" ELSE "none"]
  /\ live = [b \in Bridges |-> b \in { 1, 2 }]
  /\ inq = [b \in Bridges |-> << >>]
  /\ peer = [b \in Bridges |-> 0]
  /\ fs = [n \in SockNames |-> IF n = NAMED_SOCKET_0 THEN 1 ELSE 2]
  /\ bindRes = [over |-> "free", ok |-> TRUE]
  /\ cpc = [b \in Bridges |-> "new"]
  /\ elapsed = [b \in Bridges |-> 0]
  /\ lag = [b \in Bridges |-> 0]
  /\ early = [b \in Bridges |-> FALSE]
  /\ assoc = [b \in Bridges |-> { }]
  /\ sent = << >>
  /\ rcvd = [b \in Bridges |-> << >>]
  /\ CliInit

ErrorMsgs == { FetchA, ProvideOfSize(READBUF_SIZE + 1) }

NextErrors ==
  \/ \E r \in Roles : NewNoDir(r)
  \/ \E b \in Bridges : Drop(b)
  \/ \E b \in Bridges : ConnectStart(b)
  \/ \E b \in Bridges : ConnectAttempt(b)
  \/ \E b \in Bridges : ConnectCheck(b)
  \/ Tick
  \/ \E b \in Bridges, m \in ErrorMsgs : Len(sent) < MaxSends - 1 /\ Send(b, m)
  \/ \E b \in Bridges : Recv(b)

SpecErrors == InitBound /\ [][NextErrors]_vars

(***************************************************************************)
(* SpecDecode: the connected pair, with datagrams that another process     *)
(* sends to the paths of the bound sockets beside those of the bridges:    *)
(* any process that reaches the socket file can send to it, and recv takes *)
(* whatever datagram is queued.                                            *)
(***************************************************************************)
\* an empty datagram; the encoding of Fetch("a") without its last byte; the
\* first byte of the encoding of Status; the first three bytes of that of
\* TestInstructionOne; a variant index no Instruction has; and, whole, the
\* encoding of Fetch("a")
ForeignDatagrams ==
  << << >>,
     RTake(Serialize(FetchA), RLen(Serialize(FetchA)) - 1),
     RTake(Serialize([tag |-> "Status"]), 1),
     RTake(Serialize(TestInstructionOne), 3),
     U32(9),
     Serialize(FetchA) >>

\* datagrams of other processes, queued or taken, are numbered below zero
ForeignSeen ==
  Cardinality({ <<b, k>> \in Bridges \X (1 .. MaxQueue) :
                  k <= Len(inq[b]) /\ inq[b][k].uid < 0 })
  + Cardinality({ <<b, k>> \in Bridges \X (1 .. (MaxSends + MaxQueue)) :
                    k <= Len(rcvd[b]) /\ rcvd[b][k].uid < 0 })

\* another process sends the k-th of these datagrams to the bridge's path
ForeignSend(b, k) ==
  /\ live[b]
  /\ Len(inq[b]) < MaxQueue
  /\ ForeignSeen < MaxSends - 1
  /\ \A c \in Bridges : \A j \in 1 .. Len(inq[c]) : inq[c][j].uid # 0 - k
  /\ \A c \in Bridges : \A j \in 1 .. Len(rcvd[c]) : rcvd[c][j].uid # 0 - k
  /\ inq' = [inq EXCEPT ![b] = Append(@, [uid |-> 0 - k, bytes |-> ForeignDatagrams[k]])]
  /\ UNCHANGED << role, live, peer, fs, bindRes, connVars, assoc, sent, rcvd >>
  /\ Watch
  /\ UNCHANGED cliVars

DecodeMsgs == { FetchA, ProvideOfSize(READBUF_SIZE + 1) }

NextDecode ==
  \/ \E b \in Bridges, k \in 1 .. Len(ForeignDatagrams) : ForeignSend(b, k)
  \/ \E b \in Bridges, m \in DecodeMsgs : Len(sent) < MaxSends - 1 /\ Send(b, m)
  \/ \E b \in Bridges : Recv(b)

SpecDecode == InitPair /\ [][NextDecode]_vars

(***************************************************************************)
(* SpecCli: the fetch of the command line client.  The process builds one  *)
(* Action from its arguments and dispatches it; dispatch posts the request *)
(* and, on UNAUTHORIZED, adds one to the process-wide counter, prompts for *)
(* a secret while the value read is at most 2, and calls itself with the   *)
(* secret entered.  The server answers each request as it likes.           *)
(***************************************************************************)
\* AtomicU8: fetch_add wraps around
U8 == 256

Secrets == { "s1", "s2" }

StatusCodes == { "OK", "UNAUTHORIZED", "NOT_FOUND", "IM_A_TEAPOT" }

\* every activation returns what the one inside it returned (`?`, then Ok(()))
Returned(o) ==
  /\ depth' = 0
  /\ at' = "idle"
  /\ outcome' = o

\* main: Action::from_args, prepare, dispatch
DispatchStart(s) ==
  /\ depth = 0
  /\ outcome = "none"
  /\ depth' = 1
  /\ at' = "request"
  /\ secret' = s
  /\ UNCHANGED << GISTIT_SECRET_RETRY_COUNT, count, prompted, outcome >>
  /\ UNCHANGED bridgeVars

\* the request could not be sent or answered: `.send().await?`
RequestFails ==
  /\ at = "request"
  /\ Returned("Request")
  /\ UNCHANGED << GISTIT_SECRET_RETRY_COUNT, count, secret, prompted >>
  /\ UNCHANGED bridgeVars

\* a limit one higher than the code's
WithinRetriesLax(c) == c <= 3

\* `if count <= 2`
WithinRetries(c) == c <= 2

\* match first_try.status()
Respond(status) ==
  /\ at = "request"
  /\ CASE status = "OK" ->
            /\ Returned("Ok")
            /\ UNCHANGED << GISTIT_SECRET_RETRY_COUNT, count >>
       [] status = "UNAUTHORIZED" ->
            /\ GISTIT_SECRET_RETRY_COUNT' = (GISTIT_SECRET_RETRY_COUNT + 1) % U8
            /\ count' = GISTIT_SECRET_RETRY_COUNT
            /\ IF WithinRetries(GISTIT_SECRET_RETRY_COUNT)
               THEN /\ at' = "prompt"
                    /\ UNCHANGED << depth, outcome >>
               ELSE Returned("ExaustedSecretRetries")
       [] status = "NOT_FOUND" ->
            /\ Returned("NotFound")
            /\ UNCHANGED << GISTIT_SECRET_RETRY_COUNT, count >>
       [] OTHER ->
            /\ Returned("UnexpectedResponse")
            /\ UNCHANGED << GISTIT_SECRET_RETRY_COUNT, count >>
  /\ UNCHANGED << secret, prompted >>
  /\ UNCHANGED bridgeVars

\* Password::interact, then prepare and dispatch on the rebuilt action: the
\* prompt fails, or the secret entered does not pass prepare's check, or the
\* action with the new secret is dispatched
Prompt(entry) ==
  /\ at = "prompt"
  /\ prompted' = Append(prompted, [count |-> count, entered |-> entry])
  /\ CASE entry = "failed" -> Returned("StdinWrite") /\ UNCHANGED secret
       [] entry = "invalid" -> Returned("InvalidSecret") /\ UNCHANGED secret
       [] OTHER ->
            /\ depth' = depth + 1
            /\ at' = "request"
            /\ secret' = entry
            /\ UNCHANGED outcome
  /\ UNCHANGED << GISTIT_SECRET_RETRY_COUNT, count >>
  /\ UNCHANGED bridgeVars

NextCli ==
  \/ \E s \in Secrets \cup { "none" } : DispatchStart(s)
  \/ RequestFails
  \/ \E status \in StatusCodes : Respond(status)
  \/ \E entry \in Secrets \cup { "invalid", "failed" } : Prompt(entry)

SpecCli == Init /\ [][NextCli]_vars

\* the server answers every request and the prompt returns
FairCli == SpecCli /\ WF_vars(NextCli)

(***************************************************************************)
(* Properties of the traffic.                                              *)
(***************************************************************************)
\* the encoding fits recv's buffer
Fits(m) == RLen(Serialize(m)) <= READBUF_SIZE

\* what recv returns for the datagram of an instruction
Expected(m) == IF Fits(m) THEN Ok(m) ELSE DecodeErr

\* the send calls that put a datagram on the bridge's bound socket, in order
Arrived(b) ==
  SelectSeq([u \in 1 .. Len(sent) |-> u], LAMBDA u : sent[u].ok /\ sent[u].to = b)

RcvdUids(b) == [k \in 1 .. Len(rcvd[b]) |-> rcvd[b][k].uid]

QueuedUids(b) == [k \in 1 .. Len(inq[b]) |-> inq[b][k].uid]

\* C1: between a connected Server and Client bridge, an instruction whose
\* encoding is at most READBUF_SIZE bytes and that one side's send put on the
\* wire is returned by the other side's recv as Ok of an equal instruction.
C1_RoundTrip ==
  \A b \in Bridges : \A k \in 1 .. Len(rcvd[b]) :
    Fits(sent[rcvd[b][k].uid].msg)
      => rcvd[b][k].res = Ok(sent[rcvd[b][k].uid].msg)

\* every variant and every reply has been sent by one side and returned by
\* the other, the Provide that fills the buffer among them
C1_Witness ==
  /\ \E k \in 1 .. Len(rcvd[1]) :
       /\ sent[rcvd[1][k].uid].by = 2
       /\ rcvd[1][k].res = Ok(ProvideOfSize(READBUF_SIZE))
  /\ \E k \in 1 .. Len(rcvd[2]) :
       /\ sent[rcvd[2][k].uid].by = 1
       /\ rcvd[2][k].res = Ok(ResponseStatus)

C3_DirectionIsolation ==
  \A b \in Bridges :
    /\ \A k \in 1 .. Len(rcvd[b]) :
         /\ sent[rcvd[b][k].uid].ok
         /\ sent[rcvd[b][k].uid].to = b
         /\ sent[rcvd[b][k].uid].by # b
         /\ role[sent[rcvd[b][k].uid].by] \in Roles \ { role[b] }
         /\ rcvd[b][k].res = Ok(sent[rcvd[b][k].uid].msg)
    /\ \A k \in 1 .. Len(inq[b]) :
         /\ sent[inq[b][k].uid].by # b
         /\ role[sent[inq[b][k].uid].by] \in Roles \ { role[b] }

\* the fetch conversation has run: the client sent Fetch, the server's recv
\* returned it, the server sent the Response, the client's recv returned it
C3_Witness ==
  \E s, c \in Bridges :
    /\ role[s] = "Server" /\ role[c] = "Client"
    /\ Len(sent) = 2
    /\ sent[1].by = c /\ sent[1].msg = FetchA
    /\ rcvd[s] = << [uid |-> 1, res |-> Ok(FetchA)] >>
    /\ sent[2].by = s /\ sent[2].msg = ResponseFetch
    /\ rcvd[c] = << [uid |-> 2, res |-> Ok(ResponseFetch)] >>

\* C4: with send and recv calls on a connected pair of bridges interleaved in
\* every order, no datagram is returned by two recv calls, and every recv
\* that returns an instruction returns the instruction of a successful send
\* to that bridge.
C4_ExactlyOnce ==
  /\ \A b, c \in Bridges :
       \A k \in 1 .. Len(rcvd[b]) : \A j \in 1 .. Len(rcvd[c]) :
         rcvd[b][k].uid = rcvd[c][j].uid => b = c /\ k = j
  /\ \A b \in Bridges : \A k \in 1 .. Len(rcvd[b]) :
       /\ rcvd[b][k].uid \in 1 .. Len(sent)
       /\ sent[rcvd[b][k].uid].ok
       /\ sent[rcvd[b][k].uid].to = b
       /\ rcvd[b][k].res.ok => rcvd[b][k].res.val = sent[rcvd[b][k].uid].msg

\* the same instruction was sent twice to the server, the second time while
\* the first was still queued, and two recv calls returned it once each
C4_Witness ==
  /\ Len(sent) = 3
  /\ sent[1].msg = FetchA /\ sent[2].msg = ResponseFetch /\ sent[3].msg = FetchA
  /\ sent[1].by = 2 /\ sent[2].by = 1 /\ sent[3].by = 2
  /\ RcvdUids(1) = << 1, 3 >>
  /\ rcvd[1][1].res = rcvd[1][2].res
  /\ RcvdUids(2) = << 2 >>
\* the send call has returned Ok, and a recv call has returned its
\* instruction or the bridge it was sent to is gone
SentOk(u) == Len(sent) >= u /\ sent[u].ok

Delivered(u) ==
  /\ SentOk(u)
  /\ \/ ~live[sent[u].to]
     \/ \E k \in 1 .. Len(rcvd[sent[u].to]) :
          /\ rcvd[sent[u].to][k].uid = u
          /\ rcvd[sent[u].to][k].res = Ok(sent[u].msg)

\* C5 as stated: every instruction whose send returned Ok is eventually
\* returned by a recv call of the peer bridge, while the peer exists and
\* keeps calling recv.
C5_EverySendReturned ==
  \A u \in 1 .. MaxSends : SentOk(u) ~> Delivered(u)

\* C5: every instruction whose encoding is at most READBUF_SIZE bytes and
\* whose send returned Ok is eventually returned by a recv call of the peer
\* bridge, while the peer exists and keeps calling recv.
C5_EveryFittingSendReturned ==
  \A u \in 1 .. MaxSends : (SentOk(u) /\ Fits(sent[u].msg)) ~> Delivered(u)

\* three sends have returned Ok, the Provide that fills the buffer among
\* them, and recv calls of the peers have returned all three instructions
C5_Witness ==
  /\ Len(sent) = MaxSends
  /\ \A u \in 1 .. MaxSends : sent[u].ok /\ live[sent[u].to] /\ Delivered(u)
  /\ \E u \in 1 .. MaxSends : sent[u].msg = ProvideOfSize(READBUF_SIZE)
(***************************************************************************)
(* Properties of alive, connect_blocking and the constructors.             *)
(***************************************************************************)
\* C6 as stated: while a Server and a Client bridge both exist and
\* connect_blocking has returned Ok on both, alive() returns true on both.
C6_AliveAfterConnect ==
  \A s, c \in Bridges :
    ( /\ role[s] = "Server" /\ role[c] = "Client"
      /\ live[s] /\ live[c]
      /\ cpc[s] = "ok" /\ cpc[c] = "ok" )
      => AliveValue(s) /\ AliveValue(c)

\* the datagram of the send call is in no queue and was returned by no recv
Nowhere(u) ==
  \A b \in Bridges :
    /\ \A k \in 1 .. Len(inq[b]) : inq[b][k].uid # u
    /\ \A k \in 1 .. Len(rcvd[b]) : rcvd[b][k].uid # u

\* C7 as stated: a send returns Ok only after connect_blocking has returned
\* Ok on the sending bridge.
C7_SendNeedsConnectBlocking ==
  \A u \in 1 .. Len(sent) : sent[u].ok => "connect_blocking" \in sent[u].via

\* C7: a send on a bridge whose other socket no connect has associated
\* returns an error, a send that returns an error places no datagram, and a
\* send returns Ok only after connect_blocking has returned Ok or alive() has
\* returned true on the sending bridge.
C7_SendNeedsConnect ==
  \A u \in 1 .. Len(sent) :
    /\ sent[u].via = { } => ~sent[u].ok
    /\ ~sent[u].ok => Nowhere(u)
    /\ sent[u].ok => sent[u].via \cap { "connect_blocking", "alive" } # { }

\* a send before any connect failed with the peer bound and alive, and after
\* alive() returned true the next send of the same bridge returned Ok
C7_Witness ==
  /\ Len(sent) = 2
  /\ sent[1].by = sent[2].by
  /\ sent[1].via = { } /\ ~sent[1].ok /\ Nowhere(1)
  /\ sent[2].via = { "alive" } /\ sent[2].ok
  /\ inq[sent[2].to] # << >>

\* C8: a connect_blocking call that began before the peer path was bound
\* and has seen it bound since before the timeout elapsed does not return an
\* error; its next attempt returns Ok with the other socket connected to the
\* socket bound at the peer path, and the call reaches that attempt while
\* the peer stays.
C8_StartupBarrier ==
  /\ \A b \in Bridges : (early[b] /\ ~Idle(b)) ~> (cpc[b] = "ok" \/ ~early[b])
  /\ [][\A b \in Bridges :
          (early[b] /\ ~Idle(b)) =>
             /\ cpc'[b] # "err"
             /\ cpc'[b] = "ok" => /\ peer'[b] = fs[PeerName(role[b])]
                                  /\ live[peer'[b]]
                                  /\ role[peer'[b]] \in Roles \ { role[b] }]_vars

\* a call of a Server and a call of a Client bridge, each begun before the
\* other side was bound, have returned Ok; the later of the two is connected
\* to the peer that bound while it was looping
C8_Witness ==
  \E s, c \in Bridges :
    /\ role[s] = "Server" /\ cpc[s] = "ok" /\ early[s]
    /\ role[c] = "Client" /\ cpc[c] = "ok" /\ early[c]
    /\ \E b \in { s, c } :
         /\ live[b]
         /\ peer[b] # 0 /\ live[peer[b]] /\ fs[PeerName(role[b])] = peer[b]

\* C9 as stated: with no file at the peer path, connect_blocking does not
\* return an error before CONNECT_TIMEOUT_SECS have elapsed, and returns it
\* after the first failed attempt made later than that.
C9_FailsAtTimeout ==
  [][\A b \in Bridges :
       ( /\ cpc[b] = "check" /\ cpc'[b] # "check"
         /\ fs[PeerName(role[b])] = 0 ) =>
          /\ cpc'[b] = "err" => elapsed[b] >= TimeoutTicks
          /\ elapsed[b] - lag[b] > TimeoutTicks => cpc'[b] = "err"]_vars

\* the bridge the last server() or client() call returned
Newest == NextBridge - 1

\* C10: server() or client() where the file of a dropped bridge is at the
\* role's path returns Ok; the new bridge's socket is the one bound at the
\* path, a connect of a live bridge of the other role reaches it, and what
\* was sent to it is returned by its recv calls or queued for them, in order.
C10_BindOverStale ==
  bindRes.over = "stale" =>
    /\ bindRes.ok
    /\ live[Newest] =>
         /\ fs[BindName(role[Newest])] = Newest
         /\ \A c \in Bridges :
              (live[c] /\ role[c] # role[Newest]) =>
                 Connect(c, PeerName(role[c])) = [ok |-> TRUE, peer |-> Newest]
         /\ Arrived(Newest) = RcvdUids(Newest) \o QueuedUids(Newest)
         /\ \A k \in 1 .. Len(rcvd[Newest]) :
              rcvd[Newest][k].res = Ok(sent[rcvd[Newest][k].uid].msg)

\* a bridge bound over the file of a dropped bridge, a peer connected to it
\* by connect_blocking, and its recv returned what the peer sent
C10_Witness ==
  /\ bindRes.over = "stale" /\ bindRes.ok
  /\ live[Newest]
  /\ \E k \in 1 .. Len(rcvd[Newest]) :
       /\ rcvd[Newest][k].res.ok
       /\ sent[rcvd[Newest][k].uid].via = { "connect_blocking" }
       /\ cpc[sent[rcvd[Newest][k].uid].by] = "ok"

(***************************************************************************)
(* Properties of recv's buffer, the roles and the socket files.            *)
(***************************************************************************)
\* C11: a recv that takes a datagram longer than READBUF_SIZE returns a
\* decode error, never Ok with an instruction.
C11_OversizeDecodeError ==
  \A b \in Bridges : \A k \in 1 .. Len(rcvd[b]) :
    RLen(Serialize(sent[rcvd[b][k].uid].msg)) > READBUF_SIZE
      => /\ ~rcvd[b][k].res.ok
         /\ rcvd[b][k].res = DecodeErr

\* a Provide one byte too long, a Fetch one byte too long and a Response
\* eight bytes too long were sent Ok and received, each with a decode error
C11_Witness ==
  /\ Len(sent) = 3
  /\ { sent[u].msg : u \in 1 .. 3 }
       = { ProvideOfSize(READBUF_SIZE + 1), FetchOfSize(READBUF_SIZE + 1),
           ResponseOfSize(READBUF_SIZE + 8) }
  /\ \A u \in 1 .. 3 :
       /\ sent[u].ok
       /\ \E k \in 1 .. Len(rcvd[sent[u].to]) :
            rcvd[sent[u].to][k] = [uid |-> u, res |-> DecodeErr]

\* C12: a socket file at gistit-0 leads to the bound socket of a Server
\* bridge and one at gistit-1 to that of a Client bridge; the other socket
\* of a Server bridge is unconnected or connected to a socket bound at
\* gistit-1 (a Client's), that of a Client bridge to one bound at gistit-0;
\* and no step changes the role of a bridge, whatever is called on it.
C12_RoleInvariant ==
  /\ [](/\ fs[NAMED_SOCKET_0] # 0 => role[fs[NAMED_SOCKET_0]] = "Server"
        /\ fs[NAMED_SOCKET_1] # 0 => role[fs[NAMED_SOCKET_1]] = "Client"
        /\ \A b \in Bridges :
             /\ role[b] = "none" => ~live[b] /\ peer[b] = 0
             /\ role[b] = "Server" /\ peer[b] # 0 => role[peer[b]] = "Client"
             /\ role[b] = "Client" /\ peer[b] # 0 => role[peer[b]] = "Server")
  /\ [][\A b \in Bridges : role[b] # "none" => role'[b] = role[b]]_vars

\* a second Server bridge took gistit-0 over from a dropped one and is
\* connected, in both directions, with the Client that was there before,
\* after traffic
C12_Witness ==
  /\ role = [b \in Bridges |-> IF b = 2 THEN "Client" ELSE "Server"]
  /\ ~live[1] /\ live[2] /\ live[3]
  /\ fs[NAMED_SOCKET_0] = 3 /\ fs[NAMED_SOCKET_1] = 2
  /\ peer[3] = 2 /\ peer[2] = 3
  /\ Len(sent) > 0

\* C13: at most one live Server bridge and at most one live Client bridge
\* exist for the base directory, also when server() or client() is called
\* again while an earlier bridge of that role is alive.
C13_SingleOwner ==
  \A r \in Roles : Cardinality({ b \in Bridges : live[b] /\ role[b] = r }) <= 1

\* C14: traffic in one direction needs the sender's connection only.  A send
\* on a bridge connected to a live peer returns Ok whether or not the peer
\* has connected its own other socket, and a bridge whose other socket was
\* never connected (no connect_blocking, no alive) can recv as soon as a
\* datagram is queued: its recv calls return, in send order and complete,
\* the instructions sent to it.
C14_OneDirection ==
  /\ [](\A b \in Bridges :
          live[b] /\ assoc[b] = { } =>
            /\ peer[b] = 0 /\ cpc[b] = "new"
            /\ Arrived(b) = RcvdUids(b) \o QueuedUids(b)
            /\ \A k \in 1 .. Len(rcvd[b]) :
                 rcvd[b][k].res = Ok(sent[rcvd[b][k].uid].msg)
            /\ inq[b] # << >> => ENABLED Recv(b))
  /\ [][\A b \in Bridges :
          /\ live[b] /\ peer[b] # 0 /\ live[peer[b]]
          /\ Len(sent') = Len(sent) + 1
          /\ sent'[Len(sent')].by = b
          => /\ sent'[Len(sent')].ok
             /\ sent'[Len(sent')].to = peer[b]
             /\ QueuedUids(peer[b])' = Append(QueuedUids(peer[b]), Len(sent'))]_vars

\* only the client is connected: the server, which has called neither
\* connect_blocking nor alive, has received the client's two sends in order
C14_Witness ==
  \E s, c \in Bridges :
    /\ role[s] = "Server" /\ role[c] = "Client"
    /\ live[s] /\ live[c]
    /\ assoc[s] = { } /\ cpc[s] = "new" /\ peer[s] = 0
    /\ cpc[c] = "ok" /\ peer[c] = s
    /\ Len(sent) = 2 /\ sent[1].by = c /\ sent[2].by = c
    /\ rcvd[s] = << [uid |-> 1, res |-> Ok(FetchA)], [uid |-> 2, res |-> Ok(FetchA)] >>

\* C15: the two directions are independent queues.  A send on a connected
\* bridge completes, queueing its datagram, whatever the peer's recv calls
\* have done, as long as the peer's queue has room; it leaves the sender's
\* own queue and every receive history as they were.  A recv returns the
\* oldest datagram of the bridge's own queue, decoded, and leaves the other
\* queue and the other history as they were: what a side's recv calls return
\* is fixed by the order of the opposite side's sends.
C15_FullDuplex ==
  /\ [](\A b \in Bridges :
          /\ live[b] => Arrived(b) = RcvdUids(b) \o QueuedUids(b)
          /\ /\ live[b] /\ peer[b] # 0 /\ live[peer[b]]
             /\ Len(inq[peer[b]]) < MaxQueue /\ Len(sent) < MaxSends
             => ENABLED Send(b, FetchA))
  /\ [][\A b \in Bridges :
          /\ rcvd'[b] # rcvd[b] =>
               /\ inq[b] # << >>
               /\ inq'[b] = Tail(inq[b])
               /\ rcvd'[b] = Append(rcvd[b],
                    [uid |-> Head(inq[b]).uid,
                     res |-> Expected(sent[Head(inq[b]).uid].msg)])
               /\ sent' = sent
               /\ \A c \in Bridges \ { b } : inq'[c] = inq[c] /\ rcvd'[c] = rcvd[c]
          /\ Len(sent') > Len(sent) /\ sent'[Len(sent')].by = b =>
               /\ inq'[b] = inq[b]
               /\ rcvd' = rcvd
               /\ sent'[Len(sent')].ok =>
                    inq'[peer[b]] = Append(inq[peer[b]],
                      [uid |-> Len(sent'), bytes |-> Serialize(sent'[Len(sent')].msg)])]_vars

\* both sides sent before either received; the client then received the
\* server's first instruction while the server's second one and the client's
\* own stay queued, one in each direction
C15_Witness ==
  /\ Len(sent) = 3
  /\ sent[1].by = 1 /\ sent[2].by = 2 /\ sent[3].by = 1
  /\ \A u \in 1 .. 3 : sent[u].ok
  /\ RcvdUids(2) = << 1 >> /\ QueuedUids(2) = << 3 >>
  /\ RcvdUids(1) = << >> /\ QueuedUids(1) = << 2 >>

(***************************************************************************)
(* Properties of the traffic under load.                                   *)
(***************************************************************************)
\* the instruction of the k-th place of a stream that alternates from One
Alternating(k) == IF k % 2 = 1 THEN TestInstructionOne ELSE TestInstructionTwo

\* the datagrams of task t among those the bridge's recv calls returned
RcvdFrom(b, t) == SelectSeq(rcvd[b], LAMBDA r : sent[r.uid].task = t)

\* C16: with the bridges shared by the spawned tasks, the recv
\* calls of each side return One, Two, One, Two in strict alternation: a recv
\* that follows a received One returns Two.
C16_StrictAlternation ==
  \A b \in { 1, 2 } : \A k \in 1 .. Len(rcvd[b]) :
    rcvd[b][k].res = Ok(Alternating(k))

\* the successful sends of task t to the bridge, in the order of the calls
SentFrom(b, t) == SelectSeq(Arrived(b), LAMBDA u : sent[u].task = t)

\* the datagrams of task t among those queued at the bridge
QueuedFrom(b, t) == SelectSeq(QueuedUids(b), LAMBDA u : sent[u].task = t)

\* C17: whatever the interleaving of the tasks' send calls, the datagrams of
\* one task in a side's receive stream (returned by recv, then still queued)
\* are that task's sends to the side, in the order the task made them, each
\* returned as the instruction sent.
C17_PerSenderOrder ==
  \A b \in { 1, 2 } : \A t \in Tasks :
    /\ [k \in 1 .. Len(RcvdFrom(b, t)) |-> RcvdFrom(b, t)[k].uid] \o QueuedFrom(b, t)
         = SentFrom(b, t)
    /\ \A k \in 1 .. Len(RcvdFrom(b, t)) :
         RcvdFrom(b, t)[k].res = Ok(sent[SentFrom(b, t)[k]].msg)

\* a side's recv calls returned the datagrams of the two tasks interleaved:
\* one of task 1, then one of task 2, then one of task 1, with two of each
\* task returned in all
C17_Witness ==
  \E b \in { 1, 2 } : \E k \in 1 .. Len(rcvd[b]) :
    /\ k + 2 <= Len(rcvd[b])
    /\ sent[rcvd[b][k].uid].task = 1
    /\ sent[rcvd[b][k + 1].uid].task = 2
    /\ sent[rcvd[b][k + 2].uid].task = 1
    /\ Len(RcvdFrom(b, 1)) >= 2 /\ Len(RcvdFrom(b, 2)) >= 2

(***************************************************************************)
(* Properties of the datagrams.                                            *)
(***************************************************************************)
\* C18: a send that returns Ok adds exactly one datagram, the encoding of its
\* instruction, to one queue and changes no datagram already queued; a send
\* that fails adds none; a recv takes exactly one whole datagram off its
\* bridge's queue and returns the decoding of that datagram alone.  A queued
\* datagram is always the complete encoding of the instruction of one send.
C18_MessageAtomicity ==
  /\ [](\A b \in Bridges : \A k \in 1 .. Len(inq[b]) :
          /\ inq[b][k].uid \in 1 .. Len(sent)
          /\ inq[b][k].bytes = Serialize(sent[inq[b][k].uid].msg)
          /\ \A j \in 1 .. Len(inq[b]) : inq[b][j].uid = inq[b][k].uid => j = k)
  /\ [][/\ Len(sent') > Len(sent) =>
             /\ Len(sent') = Len(sent) + 1
             /\ IF sent'[Len(sent')].ok
                THEN \E b \in Bridges :
                       /\ inq'[b] = Append(inq[b],
                            [uid |-> Len(sent'),
                             bytes |-> Serialize(sent'[Len(sent')].msg)])
                       /\ \A c \in Bridges \ { b } : inq'[c] = inq[c]
                ELSE inq' = inq
        /\ \A b \in Bridges :
             rcvd'[b] # rcvd[b] =>
               /\ inq[b] # << >>
               /\ inq'[b] = Tail(inq[b])
               /\ \A c \in Bridges \ { b } : inq'[c] = inq[c]
               /\ rcvd'[b] = Append(rcvd[b],
                    [uid |-> Head(inq[b]).uid,
                     res |-> Deserialize(RecvBuffer(Serialize(sent[Head(inq[b]).uid].msg)))])]_vars

\* three instructions of different lengths were sent to one bridge while
\* none had been taken; a recv returned the first, alone and whole, and the
\* other two are queued as two datagrams
C18_Witness ==
  \E b \in Bridges :
    /\ Len(rcvd[b]) = 1 /\ rcvd[b][1].res = Ok(sent[rcvd[b][1].uid].msg)
    /\ Len(inq[b]) = 2
    /\ Cardinality({ RLen(Serialize(sent[u].msg)) : u \in 1 .. 3 }) = 3
    /\ { inq[b][1].uid, inq[b][2].uid, rcvd[b][1].uid } = { 1, 2, 3 }

(***************************************************************************)
(* Properties of the failures.                                             *)
(***************************************************************************)
\* C19: a failure is the result of the call and nothing more.  A constructor
\* whose bind fails, a connect_blocking that times out, a send on a socket
\* that is unconnected or whose peer is closed, and a recv of a datagram
\* that does not decode each record an error result and leave every bridge
\* alive with its role; and on a live bridge with no call in progress,
\* whatever has failed before, alive, connect_blocking, send (when the peer
\* queue has room) and recv (when a datagram is queued) can be called.
C19_ErrorsAreValues ==
  /\ [](\A b \in Bridges :
          live[b] /\ cpc[b] \in { "new", "ok", "err" } =>
            /\ ENABLED Alive(b)
            /\ ENABLED ConnectStart(b)
            /\ SendReady(b) => ENABLED Send(b, FetchA)
            /\ inq[b] # << >> => ENABLED Recv(b))
  /\ [][/\ bindRes' # bindRes /\ bindRes'.over = "nodir" =>
             ~bindRes'.ok /\ live' = live /\ role' = role
        /\ \A b \in Bridges :
             /\ cpc[b] = "check" /\ TimedOut(elapsed[b]) /\ cpc'[b] # cpc[b] =>
                  cpc'[b] = "err" /\ live' = live /\ role' = role
             /\ /\ Len(sent') > Len(sent) /\ sent'[Len(sent')].by = b
                /\ (peer[b] = 0 \/ ~live[peer[b]])
                => ~sent'[Len(sent')].ok /\ live' = live /\ role' = role
             /\ /\ rcvd'[b] # rcvd[b]
                /\ ~Fits(sent[Head(inq[b]).uid].msg)
                => /\ rcvd'[b][Len(rcvd'[b])].res = DecodeErr
                   /\ live' = live /\ role' = role]_vars

\* one live bridge has seen each failure: its recv returned a decode error,
\* its connect_blocking timed out after the peer was dropped, its send on
\* the unconnected socket failed; a constructor failed as well
C19_Witness ==
  \E b \in Bridges :
    /\ live[b]
    /\ ~bindRes.ok
    /\ cpc[b] = "err"
    /\ \E k \in 1 .. Len(rcvd[b]) : rcvd[b][k].res = DecodeErr
    /\ \E u \in 1 .. Len(sent) : sent[u].by = b /\ ~sent[u].ok

(***************************************************************************)
(* Properties of the socket files.                                         *)
(***************************************************************************)
\* C20: once server() has returned Ok the file gistit-0 exists, and once
\* client() has returned Ok the file gistit-1 exists, from then on: dropping
\* a bridge leaves its file in place, and the file at a path changes only in
\* a constructor call that binds the path anew, for the bridge it returns.
C20_FilePersists ==
  /\ []((\E b \in Bridges : role[b] = "Server") => fs[NAMED_SOCKET_0] # 0)
  /\ []((\E b \in Bridges : role[b] = "Client") => fs[NAMED_SOCKET_1] # 0)
  /\ [][/\ (\E b \in Bridges : live[b] /\ ~live'[b]) => fs' = fs
        /\ \A n \in SockNames :
             fs'[n] # fs[n] =>
               /\ fs'[n] = NextBridge
               /\ role[fs'[n]] = "none"
               /\ role'[fs'[n]] = (IF n = NAMED_SOCKET_0 THEN "Server" ELSE "Client")
               /\ live'[fs'[n]]
               /\ bindRes'.ok]_vars

\* the Server bridge was dropped and its file gistit-0 is still there,
\* orphaned, while the file gistit-1 of the dropped first Client bridge has
\* been replaced by a later client()
C20_Witness ==
  /\ role[1] = "Server" /\ ~live[1] /\ fs[NAMED_SOCKET_0] = 1
  /\ role[2] = "Client" /\ ~live[2]
  /\ role[3] = "Client" /\ live[3] /\ fs[NAMED_SOCKET_1] = 3
  /\ bindRes = [over |-> "stale", ok |-> TRUE]

(***************************************************************************)
(* Properties of recv without a datagram.                                  *)
(***************************************************************************)
\* C21: a recv returns only by taking a datagram: with nothing queued on the
\* bridge's bound socket no recv can return, however much time passes and
\* whatever else is called, and a bridge to which no send has succeeded has
\* no recv result at all, neither Ok nor Err.
C21_RecvWaits ==
  /\ [](\A b \in Bridges :
          /\ inq[b] = << >> => ~ENABLED Recv(b)
          /\ Arrived(b) = << >> => rcvd[b] = << >>)
  /\ [][\A b \in Bridges : rcvd'[b] # rcvd[b] => inq[b] # << >>]_vars

\* nothing was ever sent to a live bridge and no recv of it has returned,
\* although its own connect_blocking has run into the timeout meanwhile and
\* two sends were made elsewhere
C21_Witness ==
  \E b \in Bridges :
    /\ live[b] /\ cpc[b] = "err"
    /\ Arrived(b) = << >> /\ rcvd[b] = << >> /\ inq[b] = << >>
    /\ Len(sent) = 2

(***************************************************************************)
(* Properties of the errors.                                               *)
(***************************************************************************)
\* Error::from(io::Error): what `?` and `.into()` make of a socket error
IoErr == [ok |-> FALSE, err |-> "io"]

\* what the connect_blocking call of the bridge returned: Ok(()), or the
\* error of its last connect attempt, converted
ConnectBlockingResult(b) == IF cpc[b] = "err" THEN IoErr ELSE [ok |-> TRUE]

\* what the send call returned: Ok(()), or the error of sock.send, converted
SendResult(u) == IF sent[u].ok THEN [ok |-> TRUE] ELSE IoErr

\* C22: the error of a connect_blocking that gave up at the timeout is of a
\* class of its own: it differs from the error of a send that failed in the
\* transport.
C22_TimeoutDistinct ==
  \A b \in Bridges : \A u \in 1 .. Len(sent) :
    cpc[b] = "err" /\ ~sent[u].ok =>
      /\ ConnectBlockingResult(b).err # SendResult(u).err
      /\ ConnectBlockingResult(b).err = "connect-timeout"

(***************************************************************************)
(* Properties of recv's decoding.                                          *)
(***************************************************************************)
\* the bytes of the datagram a recv took
BytesOf(uid) ==
  IF uid < 0 THEN ForeignDatagrams[0 - uid] ELSE Serialize(sent[uid].msg)

\* the bytes are, alone and whole, the encoding of an instruction
Encodes(d) ==
  /\ Deserialize(d).ok
  /\ RLen(Serialize(Deserialize(d).val)) = RLen(d)

\* C23: a recv whose datagram is not by itself the complete encoding of an
\* instruction returns the decode error, and a recv that returns Ok returns
\* the instruction its datagram encodes.
C23_DecodeErrorForInvalid ==
  \A b \in Bridges : \A k \in 1 .. Len(rcvd[b]) :
    /\ ~Encodes(BytesOf(rcvd[b][k].uid)) => rcvd[b][k].res = DecodeErr
    /\ rcvd[b][k].res.ok =>
         /\ Encodes(BytesOf(rcvd[b][k].uid))
         /\ rcvd[b][k].res = Deserialize(BytesOf(rcvd[b][k].uid))

(***************************************************************************)
(* Properties of alive.                                                    *)
(***************************************************************************)
\* the live bridges of the complementary role
LivePeers(b) == { p \in Bridges : live[p] /\ role[p] \in Roles \ { role[b] } }

\* C24: alive() on a live bridge returns false whenever no live bridge of
\* the complementary role exists in the base directory (the peer path never
\* bound, or only the orphaned file of a dropped bridge left), and true
\* whenever there is one, connected or not.
C24_AliveIffLivePeer ==
  \A b \in Bridges :
    live[b] =>
      /\ LivePeers(b) = { } => ~AliveValue(b)
      /\ LivePeers(b) # { } => AliveValue(b)

\* C25: alive() connects.  A call that returns true leaves the bridge's
\* other socket connected to the live socket at the peer path, as a
\* successful connect_blocking leaves it, and changes nothing else; a call
\* that returns false leaves the connection as it was.  A send on a bridge
\* that only alive() has connected, to a peer still alive, returns Ok and
\* queues its datagram there.
C25_AliveConnects ==
  /\ [](\A b \in Bridges :
          live[b] /\ ~AliveValue(b) =>
            /\ ENABLED Alive(b)
            /\ ~ENABLED (Alive(b) /\ peer'[b] # peer[b]))
  /\ [](\A b \in Bridges :
          live[b] /\ AliveValue(b) =>
            /\ ENABLED (/\ Alive(b)
                        /\ peer'[b] = fs[PeerName(role[b])]
                        /\ "alive" \in assoc'[b])
            /\ ENABLED (/\ ConnectBlocking(b)
                        /\ peer'[b] = fs[PeerName(role[b])]))
  /\ [][\A b \in Bridges :
          Alive(b) =>
            /\ AliveValue(b) =>
                 /\ peer'[b] = fs[PeerName(role[b])]
                 /\ live[peer'[b]]
            /\ ~AliveValue(b) => peer'[b] = peer[b]
            /\ \A c \in Bridges \ { b } : peer'[c] = peer[c]
            /\ UNCHANGED << role, live, inq, fs, sent, rcvd >>]_vars
  /\ [][\A b \in Bridges :
          /\ cpc[b] = "new" /\ assoc[b] = { "alive" }
          /\ peer[b] # 0 /\ live[peer[b]]
          /\ Len(sent') = Len(sent) + 1 /\ sent'[Len(sent')].by = b
          => /\ sent'[Len(sent')].ok
             /\ QueuedUids(peer[b])' = Append(QueuedUids(peer[b]), Len(sent'))]_vars

\* a bridge on which connect_blocking was never called, connected by a call
\* of alive() that returned true, has sent an instruction and its peer's recv
\* has returned it
C25_Witness ==
  \E b \in Bridges :
    /\ live[b] /\ cpc[b] = "new" /\ assoc[b] = { "alive" }
    /\ Len(sent) > 0 /\ sent[1].by = b /\ sent[1].ok /\ sent[1].via = { "alive" }
    /\ peer[b] = sent[1].to
    /\ rcvd[peer[b]] = << [uid |-> 1, res |-> Ok(sent[1].msg)] >>

(***************************************************************************)
(* Properties of a recv that fails.                                        *)
(***************************************************************************)
\* C26: a recv that returns the decode error has taken exactly its datagram
\* off the queue, whole, and nothing else: the queues of the other bridges
\* and the datagrams behind it are as they were, the bridge's next recv is
\* enabled when a datagram is queued, and the recv results of a bridge, the
\* failed ones included, follow the order of the sends to it, each later
\* one returned as if no recv had failed.
C26_DecodeErrorConsumesOne ==
  /\ [](\A b \in Bridges :
          /\ Arrived(b) = RcvdUids(b) \o QueuedUids(b)
          /\ \A k \in 1 .. Len(rcvd[b]) :
               rcvd[b][k].res = Expected(sent[rcvd[b][k].uid].msg)
          /\ \A k \in 1 .. Len(inq[b]) :
               inq[b][k].bytes = Serialize(sent[inq[b][k].uid].msg)
          /\ inq[b] # << >> => ENABLED Recv(b))
  /\ [][\A b \in Bridges :
          /\ Len(rcvd'[b]) > Len(rcvd[b])
          /\ rcvd'[b][Len(rcvd'[b])].res = DecodeErr
          => /\ Len(rcvd'[b]) = Len(rcvd[b]) + 1
             /\ rcvd'[b][Len(rcvd'[b])].uid = Head(inq[b]).uid
             /\ inq'[b] = Tail(inq[b])
             /\ \A c \in Bridges \ { b } : inq'[c] = inq[c] /\ rcvd'[c] = rcvd[c]]_vars

\* a bridge's recv returned the decode error for an oversize datagram and
\* its next recv returned the instruction sent after it
C26_Witness ==
  \E b \in Bridges :
    /\ Len(rcvd[b]) = 2
    /\ rcvd[b][1].res = DecodeErr
    /\ rcvd[b][2].uid = rcvd[b][1].uid + 1
    /\ rcvd[b][2].res = Ok(FetchA)

(***************************************************************************)
(* Properties of a connection whose peer is replaced.                      *)
(***************************************************************************)
\* C27: a connection is to the socket that was bound at the peer path when
\* the bridge connected, and only a call of connect_blocking or alive on the
\* bridge makes a new one.  A send on a bridge whose peer has been dropped
\* fails and queues nothing anywhere, also when a new bridge of the peer's
\* role has bound the path since; once the bridge has connected again, its
\* send returns Ok and queues its datagram at the bridge now bound there.
C27_NoReconnect ==
  /\ [][\A b \in Bridges :
          /\ peer'[b] # peer[b] /\ peer'[b] # 0 =>
               /\ Alive(b) \/ ConnectBlocking(b)
               /\ peer'[b] = fs[PeerName(role[b])]
          /\ /\ Len(sent') = Len(sent) + 1 /\ sent'[Len(sent')].by = b
             /\ peer[b] # 0 /\ ~live[peer[b]]
             => /\ ~sent'[Len(sent')].ok
                /\ inq' = inq
                /\ peer'[b] = 0
          /\ /\ Len(sent') = Len(sent) + 1 /\ sent'[Len(sent')].by = b
             /\ peer[b] # 0 /\ live[peer[b]]
             => /\ sent'[Len(sent')].ok
                /\ sent'[Len(sent')].to = peer[b]
                /\ QueuedUids(peer[b])' = Append(QueuedUids(peer[b]), Len(sent'))]_vars
  /\ [](\A u \in 1 .. Len(sent) : sent[u].ok => role[sent[u].to] # "none")

\* the client had connected to the first Server bridge; that bridge was
\* dropped and a second one bound gistit-0; the client's send failed; after
\* the client connected again its next send was returned by the recv of the
\* second Server bridge
C27_Witness ==
  /\ role = [b \in Bridges |-> IF b = 2 THEN "Client" ELSE "Server"]
  /\ ~live[1] /\ live[2] /\ live[3]
  /\ Len(sent) = 2
  /\ sent[1].by = 2 /\ ~sent[1].ok /\ sent[1].via # { }
  /\ sent[2].by = 2 /\ sent[2].ok /\ sent[2].to = 3
  /\ rcvd[3] = << [uid |-> 2, res |-> Ok(FetchA)] >>
  /\ rcvd[1] = << >>

(***************************************************************************)
(* C28: the retry counter of the fetch dispatch never decreases and is     *)
(* never reset; the prompts shown number at most three, at the counter     *)
(* values 0, 1 and 2 in that order; an UNAUTHORIZED response read once the *)
(* counter is past 2 returns the exhausted-retries error without another   *)
(* prompt; the activations of dispatch never nest deeper than four and a   *)
(* dispatch that was started returns.                                      *)
(***************************************************************************)
C28_RetryBound ==
  /\ [][GISTIT_SECRET_RETRY_COUNT' >= GISTIT_SECRET_RETRY_COUNT]_vars
  /\ [](/\ Len(prompted) <= 3
        /\ \A k \in 1..Len(prompted) : prompted[k].count = k - 1
        /\ depth <= 4)
  /\ [][(/\ at = "request"
         /\ GISTIT_SECRET_RETRY_COUNT > 2
         /\ GISTIT_SECRET_RETRY_COUNT' # GISTIT_SECRET_RETRY_COUNT)
        => /\ outcome' = "ExaustedSecretRetries"
           /\ depth' = 0
           /\ prompted' = prompted]_vars
  /\ [][(/\ at = "request"
         /\ GISTIT_SECRET_RETRY_COUNT <= 2
         /\ GISTIT_SECRET_RETRY_COUNT' # GISTIT_SECRET_RETRY_COUNT)
        => /\ at' = "prompt"
           /\ count' = GISTIT_SECRET_RETRY_COUNT]_vars
  /\ (depth > 0 ~> depth = 0)

\* three secrets were asked for and refused, and the fourth refusal ended it
C28_Witness ==
  /\ Len(prompted) = 3
  /\ \A k \in 1..3 : prompted[k].entered \in Secrets
  /\ GISTIT_SECRET_RETRY_COUNT = 4
  /\ outcome = "ExaustedSecretRetries"
  /\ depth = 0
====
